---- MODULE Spec2Model ----
(***************************************************************************)
(* EV range estimator widget (src/EVRangeEstimator.tsx).                   *)
(*                                                                         *)
(* Strings are sequences of one-character strings.  JavaScript numbers are *)
(* modelled as exact fractions [n, d] in lowest terms with d > 0; every    *)
(* number the component produces from the inputs enumerated here is a      *)
(* ratio of small integers.                                                *)
(***************************************************************************)
EXTENDS Integers, Sequences, FiniteSets, TLC

(* ------------------------------ bounds -------------------------------- *)

(* Largest number of simulated delays of one kind allowed to be pending.  *)
MaxInFlight == 2

(* ------------------------- nullable values ---------------------------- *)

(* null / undefined is the empty sequence, a present value v is <<v>>.    *)
Null == << >>

Some(v) == << v >>

Range(f) == { f[i] : i \in DOMAIN f }

(* ------------------------- exact arithmetic --------------------------- *)

Abs(x) == IF x < 0 THEN -x ELSE x

RECURSIVE GCD(_, _)
GCD(a, b) == IF b = 0 THEN a ELSE GCD(b, a % b)

(* The number n/d (d # 0), in lowest terms with a positive denominator.   *)
Frac(n, d) ==
    LET g == GCD(Abs(n), Abs(d))
        s == IF d < 0 THEN -1 ELSE 1
    IN  [n |-> s * (n \div g), d |-> s * (d \div g)]

Num(i) == [n |-> i, d |-> 1]

Add(x, y) == Frac(x.n * y.d + y.n * x.d, x.d * y.d)

Sub(x, y) == Frac(x.n * y.d - y.n * x.d, x.d * y.d)

Mul(x, y) ==
    LET a == Frac(x.n, y.d)
        b == Frac(y.n, x.d)
    IN  [n |-> a.n * b.n, d |-> a.d * b.d]

Div(x, y) == Mul(x, Frac(y.d, y.n))

Less(x, y) == x.n * y.d < y.n * x.d

(* Math.floor, Math.ceil, Math.round (half up) and Math.max.              *)
Floor(x) == x.n \div x.d

Ceil(x) == -((-x.n) \div x.d)

Round(x) == (2 * x.n + x.d) \div (2 * x.d)

Max(x, y) == IF Less(x, y) THEN y ELSE x

(* ------------------------------ strings ------------------------------- *)

(* String literals of the source, as sequences of characters. *)
s_new_york ==
    <<"n", "e", "w", " ", "y", "o", "r", "k">>
s_san_francisco ==
    <<"s", "a", "n", " ", "f", "r", "a", "n", "c", "i", "s", "c", "o">>
s_denver ==
    <<"d", "e", "n", "v", "e", "r">>
s_chicago ==
    <<"c", "h", "i", "c", "a", "g", "o">>
s_los_angeles ==
    <<"l", "o", "s", " ", "a", "n", "g", "e", "l", "e", "s">>
s_seattle ==
    <<"s", "e", "a", "t", "t", "l", "e">>
s_miami ==
    <<"m", "i", "a", "m", "i">>
s_austin ==
    <<"a", "u", "s", "t", "i", "n">>
s_boston ==
    <<"b", "o", "s", "t", "o", "n">>
s_las_vegas ==
    <<"l", "a", "s", " ", "v", "e", "g", "a", "s">>
s_portland ==
    <<"p", "o", "r", "t", "l", "a", "n", "d">>
s_phoenix ==
    <<"p", "h", "o", "e", "n", "i", "x">>
s_atlanta ==
    <<"a", "t", "l", "a", "n", "t", "a">>
s_dallas ==
    <<"d", "a", "l", "l", "a", "s">>
s_houston ==
    <<"h", "o", "u", "s", "t", "o", "n">>
s_nashville ==
    <<"n", "a", "s", "h", "v", "i", "l", "l", "e">>
s_salt_lake_city ==
    <<"s", "a", "l", "t", " ", "l", "a", "k", "e", " ", "c", "i", "t", "y">>
s_washington_dc ==
    <<"w", "a", "s", "h", "i", "n", "g", "t", "o", "n", " ", "d", "c">>
s_philadelphia ==
    <<"p", "h", "i", "l", "a", "d", "e", "l", "p", "h", "i", "a">>
s_pittsburgh ==
    <<"p", "i", "t", "t", "s", "b", "u", "r", "g", "h">>
s_detroit ==
    <<"d", "e", "t", "r", "o", "i", "t">>
s_orlando ==
    <<"o", "r", "l", "a", "n", "d", "o">>

Hyphen == <<"-">>

(* String.prototype.toLowerCase on the characters used here.              *)
LowerChar(c) ==
    CASE c = "N" -> "n" [] c = "Y" -> "y" [] c = "B" -> "b"
      [] c = "Z" -> "z" [] c = "Q" -> "q"
      [] OTHER -> c

toLowerCase(s) == [i \in 1..Len(s) |-> LowerChar(s[i])]

IsSpace(c) == c = " "

(* String.prototype.trim: drops leading and trailing white space.         *)
RECURSIVE trimStart(_)
trimStart(s) ==
    IF s # << >> /\ IsSpace(Head(s)) THEN trimStart(Tail(s)) ELSE s

RECURSIVE trimEnd(_)
trimEnd(s) ==
    IF s # << >> /\ IsSpace(s[Len(s)])
    THEN trimEnd(SubSeq(s, 1, Len(s) - 1))
    ELSE s

trim(s) == trimEnd(trimStart(s))

(* String.prototype.includes: sub occurs in s as a contiguous substring.  *)
includes(s, sub) ==
    \E i \in 0..(Len(s) - Len(sub)) : SubSeq(s, i + 1, i + Len(sub)) = sub

(* ---------------------------- static tables --------------------------- *)

knownLocationKeys ==
    << s_new_york,
       s_san_francisco,
       s_denver,
       s_chicago,
       s_los_angeles,
       s_seattle,
       s_miami,
       s_austin,
       s_boston,
       s_las_vegas,
       s_portland,
       s_phoenix,
       s_atlanta,
       s_dallas,
       s_houston,
       s_nashville,
       s_salt_lake_city,
       s_washington_dc,
       s_philadelphia,
       s_pittsburgh >>

knownLocations ==
    [loc \in Range(knownLocationKeys) |->
        CASE loc = s_new_york -> [terrain |-> Frac(1, 1), traffic |-> Frac(13, 10)]
          [] loc = s_san_francisco -> [terrain |-> Frac(3, 2), traffic |-> Frac(23, 20)]
          [] loc = s_denver -> [terrain |-> Frac(3, 2), traffic |-> Frac(1, 1)]
          [] loc = s_chicago -> [terrain |-> Frac(1, 1), traffic |-> Frac(23, 20)]
          [] loc = s_los_angeles -> [terrain |-> Frac(6, 5), traffic |-> Frac(13, 10)]
          [] loc = s_seattle -> [terrain |-> Frac(6, 5), traffic |-> Frac(23, 20)]
          [] loc = s_miami -> [terrain |-> Frac(1, 1), traffic |-> Frac(23, 20)]
          [] loc = s_austin -> [terrain |-> Frac(6, 5), traffic |-> Frac(1, 1)]
          [] loc = s_boston -> [terrain |-> Frac(6, 5), traffic |-> Frac(23, 20)]
          [] loc = s_las_vegas -> [terrain |-> Frac(1, 1), traffic |-> Frac(23, 20)]
          [] loc = s_portland -> [terrain |-> Frac(6, 5), traffic |-> Frac(1, 1)]
          [] loc = s_phoenix -> [terrain |-> Frac(1, 1), traffic |-> Frac(1, 1)]
          [] loc = s_atlanta -> [terrain |-> Frac(6, 5), traffic |-> Frac(23, 20)]
          [] loc = s_dallas -> [terrain |-> Frac(1, 1), traffic |-> Frac(23, 20)]
          [] loc = s_houston -> [terrain |-> Frac(1, 1), traffic |-> Frac(23, 20)]
          [] loc = s_nashville -> [terrain |-> Frac(6, 5), traffic |-> Frac(1, 1)]
          [] loc = s_salt_lake_city -> [terrain |-> Frac(3, 2), traffic |-> Frac(1, 1)]
          [] loc = s_washington_dc -> [terrain |-> Frac(1, 1), traffic |-> Frac(13, 10)]
          [] loc = s_philadelphia -> [terrain |-> Frac(1, 1), traffic |-> Frac(23, 20)]
          [] loc = s_pittsburgh -> [terrain |-> Frac(3, 2), traffic |-> Frac(1, 1)]]

knownDistances ==
    { [key |-> s_new_york \o Hyphen \o s_boston, miles |-> 215],
      [key |-> s_new_york \o Hyphen \o s_washington_dc, miles |-> 225],
      [key |-> s_los_angeles \o Hyphen \o s_san_francisco, miles |-> 380],
      [key |-> s_chicago \o Hyphen \o s_detroit, miles |-> 280],
      [key |-> s_miami \o Hyphen \o s_orlando, miles |-> 235],
      [key |-> s_seattle \o Hyphen \o s_portland, miles |-> 175],
      [key |-> s_dallas \o Hyphen \o s_houston, miles |-> 240],
      [key |-> s_phoenix \o Hyphen \o s_las_vegas, miles |-> 300],
      [key |-> s_denver \o Hyphen \o s_salt_lake_city, miles |-> 370],
      [key |-> s_atlanta \o Hyphen \o s_nashville, miles |-> 250] }

HasDistance(pair) == \E r \in knownDistances : r.key = pair

DistanceOf(pair) == (CHOOSE r \in knownDistances : r.key = pair).miles

MissingInputMsg == "Please enter both start location and destination"

NotRecognizedMsg ==
    "Location not recognized. Try using major city names like 'New York' or 'San Francisco'."

(* --------------------------- fetchRouteData ---------------------------- *)

(* start.toLowerCase().trim()                                              *)
normalize(s) == trim(toLowerCase(s))

(* Object.keys(knownLocations).find(loc => normalized.includes(loc) ||     *)
(* loc.includes(normalized)): the first key in declaration order, or       *)
(* undefined.                                                              *)
findLocation(normalized) ==
    LET hits == { i \in DOMAIN knownLocationKeys :
                    \/ includes(normalized, knownLocationKeys[i])
                    \/ includes(knownLocationKeys[i], normalized) }
    IN  IF hits = {} THEN Null
        ELSE Some(knownLocationKeys[CHOOSE i \in hits : \A j \in hits : i <= j])

startDataOf(start) == findLocation(normalize(start))

endDataOf(end) == findLocation(normalize(end))

(* The !start || !end test: the empty string is the only falsy string.    *)
IsFalsy(s) == s = << >>

sideTerrain(locData) ==
    IF locData # Null THEN knownLocations[locData[1]].terrain ELSE Num(1)

sideTraffic(locData) ==
    IF locData # Null THEN knownLocations[locData[1]].traffic ELSE Num(1)

terrainFactorOf(startData, endData) ==
    Div(Add(sideTerrain(startData), sideTerrain(endData)), Num(2))

(* Variant: startTraffic + endTraffic / 2, the division binding first.     *)
trafficConditionOf_Precedence(startData, endData) ==
    Add(sideTraffic(startData), Div(sideTraffic(endData), Num(2)))

trafficConditionOf(startData, endData) ==
    Div(Add(sideTraffic(startData), sideTraffic(endData)), Num(2))

(* Variant: the fallback distance taken from the normalized strings.       *)
distanceOf_NormalizedLengths(start, end, startData, endData) ==
    IF startData # Null /\ endData # Null
    THEN LET normalizedPair1 == startData[1] \o Hyphen \o endData[1]
             normalizedPair2 == endData[1] \o Hyphen \o startData[1]
         IN  IF HasDistance(normalizedPair1) THEN DistanceOf(normalizedPair1)
             ELSE IF HasDistance(normalizedPair2) THEN DistanceOf(normalizedPair2)
             ELSE 150 + (Len(startData[1]) + Len(endData[1])) * 10
    ELSE 100 + (Len(normalize(start)) + Len(normalize(end))) * 5

distanceOf(start, end, startData, endData) ==
    IF startData # Null /\ endData # Null
    THEN LET normalizedPair1 == startData[1] \o Hyphen \o endData[1]
             normalizedPair2 == endData[1] \o Hyphen \o startData[1]
         IN  IF HasDistance(normalizedPair1) THEN DistanceOf(normalizedPair1)
             ELSE IF HasDistance(normalizedPair2) THEN DistanceOf(normalizedPair2)
             ELSE 150 + (Len(startData[1]) + Len(endData[1])) * 10
    ELSE 100 + (Len(start) + Len(end)) * 5

(* `${hours}h ${minutes}m`, kept as its two numbers.                      *)
estimatedTimeOf(distance, trafficCondition) ==
    LET avgSpeed    == Div(Num(65), trafficCondition)
        timeInHours == Div(Num(distance), avgSpeed)
        hours       == Floor(timeInHours)
        minutes     == Round(Mul(Sub(timeInHours, Num(hours)), Num(60)))
    IN  [hours |-> hours, minutes |-> minutes]

terrainTypeOf(terrainFactor) ==
    IF Less(Frac(13, 10), terrainFactor) THEN "Mountainous"
    ELSE IF Less(Frac(11, 10), terrainFactor) THEN "Hilly"
    ELSE "Flat"

(* Variant: the levels cut at the values the RouteData comment names,      *)
(* 1.15 = moderate and 1.3 = heavy.                                        *)
trafficLevelOf_NamedValues(trafficCondition) ==
    IF ~Less(trafficCondition, Frac(13, 10)) THEN "Heavy"
    ELSE IF ~Less(trafficCondition, Frac(115, 100)) THEN "Moderate"
    ELSE "Light"

trafficLevelOf(trafficCondition) ==
    IF Less(Frac(12, 10), trafficCondition) THEN "Heavy"
    ELSE IF Less(Frac(11, 10), trafficCondition) THEN "Moderate"
    ELSE "Light"

newRouteData(distance, terrainFactor, trafficCondition) ==
    [ distance         |-> distance,
      terrainFactor    |-> terrainFactor,
      trafficCondition |-> trafficCondition,
      estimatedTime    |-> estimatedTimeOf(distance, trafficCondition),
      terrainType      |-> terrainTypeOf(terrainFactor),
      trafficLevel     |-> trafficLevelOf(trafficCondition) ]

(* Variant: gives up when either side is unknown (|| for &&).              *)
resolveAfterDelay_EitherUnknown(start, end) ==
    LET startData == startDataOf(start)
        endData   == endDataOf(end)
    IN  IF startData = Null \/ endData = Null
        THEN [value |-> Null, error |-> Some(NotRecognizedMsg)]
        ELSE [value |-> Some(newRouteData(
                            distanceOf(start, end, startData, endData),
                            terrainFactorOf(startData, endData),
                            trafficConditionOf(startData, endData))),
              error |-> Null]

(* The body of fetchRouteData after the simulated delay: the value the     *)
(* call returns, and the route error it sets, if any.                      *)
resolveAfterDelay(start, end) ==
    LET startData == startDataOf(start)
        endData   == endDataOf(end)
    IN  IF startData = Null /\ endData = Null
        THEN [value |-> Null, error |-> Some(NotRecognizedMsg)]
        ELSE [value |-> Some(newRouteData(
                            distanceOf(start, end, startData, endData),
                            terrainFactorOf(startData, endData),
                            trafficConditionOf(startData, endData))),
              error |-> Null]

(* --------------------------- calculateRange ---------------------------- *)

(* Variant: the stops counted from the clamped arrival charge.             *)
estimate_StopsFromClamped(currentRouteData, batteryCapacity_, currentCharge_, vehicleEfficiency_) ==
    LET availableEnergy    == Mul(batteryCapacity_, Div(currentCharge_, Num(100)))
        adjustedEfficiency == Div(vehicleEfficiency_,
                                  Mul(currentRouteData.terrainFactor,
                                      currentRouteData.trafficCondition))
        maxRange           == Mul(availableEnergy, adjustedEfficiency)
        energyRequired     == Div(Num(currentRouteData.distance), adjustedEfficiency)
        batteryPercentageRequired ==
            Mul(Div(energyRequired, batteryCapacity_), Num(100))
        arrivalCharge      == Sub(currentCharge_, batteryPercentageRequired)
        shownCharge        == Max(arrivalCharge, Num(10))
        chargingStops      ==
            IF Less(shownCharge, Num(10))
            THEN Ceil(Div(Sub(Num(10), shownCharge), Num(70)))
            ELSE 0
    IN  [ estimatedRange     |-> maxRange,
          batteryConsumption |-> batteryPercentageRequired,
          chargingStops      |-> chargingStops,
          arrivalCharge      |-> Max(arrivalCharge, Num(10)) ]

(* Variant: the efficiency derated by terrain only.                        *)
estimate_IgnoresTraffic(currentRouteData, batteryCapacity_, currentCharge_, vehicleEfficiency_) ==
    LET availableEnergy    == Mul(batteryCapacity_, Div(currentCharge_, Num(100)))
        adjustedEfficiency == Div(vehicleEfficiency_,
                                  currentRouteData.terrainFactor)
        maxRange           == Mul(availableEnergy, adjustedEfficiency)
        energyRequired     == Div(Num(currentRouteData.distance), adjustedEfficiency)
        batteryPercentageRequired ==
            Mul(Div(energyRequired, batteryCapacity_), Num(100))
        arrivalCharge      == Sub(currentCharge_, batteryPercentageRequired)
        chargingStops      ==
            IF Less(arrivalCharge, Num(10))
            THEN Ceil(Div(Sub(Num(10), arrivalCharge), Num(70)))
            ELSE 0
    IN  [ estimatedRange     |-> maxRange,
          batteryConsumption |-> batteryPercentageRequired,
          chargingStops      |-> chargingStops,
          arrivalCharge      |-> Max(arrivalCharge, Num(10)) ]

(* The body of the setTimeout callback of calculateRange.                  *)
estimate(currentRouteData, batteryCapacity_, currentCharge_, vehicleEfficiency_) ==
    LET availableEnergy    == Mul(batteryCapacity_, Div(currentCharge_, Num(100)))
        adjustedEfficiency == Div(vehicleEfficiency_,
                                  Mul(currentRouteData.terrainFactor,
                                      currentRouteData.trafficCondition))
        maxRange           == Mul(availableEnergy, adjustedEfficiency)
        energyRequired     == Div(Num(currentRouteData.distance), adjustedEfficiency)
        batteryPercentageRequired ==
            Mul(Div(energyRequired, batteryCapacity_), Num(100))
        arrivalCharge      == Sub(currentCharge_, batteryPercentageRequired)
        chargingStops      ==
            IF Less(arrivalCharge, Num(10))
            THEN Ceil(Div(Sub(Num(10), arrivalCharge), Num(70)))
            ELSE 0
    IN  [ estimatedRange     |-> maxRange,
          batteryConsumption |-> batteryPercentageRequired,
          chargingStops      |-> chargingStops,
          arrivalCharge      |-> Max(arrivalCharge, Num(10)) ]

(* ------------------------------- inputs -------------------------------- *)

EmptyString == << >>

Blank == <<" ">>

in_New_York ==
    <<"N", "e", "w", " ", "Y", "o", "r", "k">>
in_Boston ==
    <<"B", "o", "s", "t", "o", "n">>
in_Zzyzx ==
    <<"Z", "z", "y", "z", "x">>
in_Qqcity ==
    <<"Q", "q", "c", "i", "t", "y">>
in_Boston_padded ==
    <<" ", "B", "o", "s", "t", "o", "n", " ">>
in_york ==
    <<"y", "o", "r", "k">>
in_new_york_city ==
    <<"n", "e", "w", " ", "y", "o", "r", "k", " ", "c", "i", "t", "y">>

(* An unknown place written out at length: 85 characters.                  *)
in_LongText ==
    [i \in 1..85 |-> "x"]

(* Texts typed into the two location fields of the widget.                 *)
TypedLocations == { EmptyString, Blank, in_New_York, in_Boston, in_Zzyzx }

(* Argument strings for direct calls of fetchRouteData.                    *)
ArgStrings ==
    { EmptyString, Blank, in_New_York, in_Boston, in_Zzyzx, in_Qqcity,
      in_Boston_padded, in_york, in_new_york_city }

CityNames == Range(knownLocationKeys) \cup { s_detroit, s_orlando }

(* The city pairs of the knownDistances keys, "a-b" read as <<a, b>>.      *)
KnownRoutePairs ==
    { p \in CityNames \X CityNames : HasDistance(p[1] \o Hyphen \o p[2]) }

(* Calls with the long text on one side.                                   *)
LongPairs ==
    { <<in_New_York, in_LongText>>, <<in_LongText, in_New_York>>,
      <<in_LongText, in_Boston>>, <<in_Zzyzx, in_LongText>> }

ArgPairs ==
    (ArgStrings \X ArgStrings)
        \cup KnownRoutePairs
        \cup { <<p[2], p[1]>> : p \in KnownRoutePairs }
        \cup LongPairs

(* Values of the three number inputs, within their min/max attributes.     *)
CapacityValues == { Num(75), Num(10) }

ChargeValues == { Num(100), Num(20) }

EfficiencyValues == { Frac(45, 10), Num(1) }

(* -------------------------------- state -------------------------------- *)

VARIABLES
    startLocation,      \* useState('')
    destination,        \* useState('')
    batteryCapacity,    \* useState(75)
    currentCharge,      \* useState(100)
    vehicleEfficiency,  \* useState(4.5)
    routeData,          \* useState<RouteData | null>(null)
    result,             \* useState<RangeEstimationResult | null>(null)
    isCalculating,      \* useState(false)
    isLoadingRoute,     \* useState(false)
    routeError,         \* useState<string | null>(null)
    timeouts,           \* pending setTimeout(…, 1500) callbacks, oldest first
    call                \* a direct caller's latest fetchRouteData call and its return

vars ==
    << startLocation, destination, batteryCapacity, currentCharge,
       vehicleEfficiency, routeData, result, isCalculating, isLoadingRoute,
       routeError, timeouts, call >>

vehicle == << batteryCapacity, currentCharge, vehicleEfficiency >>

locations == << startLocation, destination >>

Init ==
    /\ startLocation = EmptyString
    /\ destination = EmptyString
    /\ batteryCapacity = Num(75)
    /\ currentCharge = Num(100)
    /\ vehicleEfficiency = Frac(45, 10)
    /\ routeData = Null
    /\ result = Null
    /\ isCalculating = FALSE
    /\ isLoadingRoute = FALSE
    /\ routeError = Null
    /\ timeouts = << >>
    /\ call = Null

PendingFetches == SelectSeq(timeouts, LAMBDA t : t.kind = "fetch")

PendingEstimations == SelectSeq(timeouts, LAMBDA t : t.kind = "calc")

(* The closure of the setTimeout callback in calculateRange.               *)
CalcTimeout(currentRouteData, v) ==
    [ kind |-> "calc", currentRouteData |-> currentRouteData,
      batteryCapacity |-> v[1], currentCharge |-> v[2],
      vehicleEfficiency |-> v[3] ]

(* ---------------------------- fetchRouteData --------------------------- *)

(* Who awaits a fetchRouteData call: the Get Route button, which drops the *)
(* returned value; calculateRange, which goes on with the vehicle values   *)
(* it closed over; or a direct caller, which keeps the value in call.      *)
ByButton == [kind |-> "button"]

ByCalculateRange(v) == [kind |-> "calculateRange", vehicle |-> v]

ByCaller == [kind |-> "caller"]

(* fetchRouteData returns value to the one who called it.                  *)
Return(continuation, start, end, value) ==
    IF continuation.kind = "caller"
    THEN call' = Some([start |-> start, end |-> end, done |-> TRUE, value |-> value])
    ELSE UNCHANGED call

(* Variant: only the start string is tested.                               *)
MissingInput_StartOnly(start, end) == IsFalsy(start)

MissingInput(start, end) == IsFalsy(start) \/ IsFalsy(end)

(* fetchRouteData(start, end) up to its await.                             *)
fetchRouteData(start, end, continuation) ==
    IF MissingInput(start, end)
    THEN /\ routeError' = Some(MissingInputMsg)
         /\ Return(continuation, start, end, Null)
         /\ UNCHANGED << isLoadingRoute, timeouts >>
    ELSE /\ Len(timeouts) < MaxInFlight
         /\ isLoadingRoute' = TRUE
         /\ routeError' = Null
         /\ timeouts' = Append(timeouts,
                [ kind |-> "fetch", start |-> start, end |-> end,
                  continuation |-> continuation ])
         /\ IF continuation.kind = "caller"
            THEN call' = Some([start |-> start, end |-> end, done |-> FALSE,
                               value |-> Null])
            ELSE UNCHANGED call

(* The simulated delay of the oldest pending fetchRouteData elapses: the   *)
(* rest of the function runs, and then the rest of calculateRange when     *)
(* that was the caller.                                                    *)
FetchResolves ==
    /\ timeouts # << >>
    /\ Head(timeouts).kind = "fetch"
    /\ LET t == Head(timeouts)
           r == resolveAfterDelay(t.start, t.end)
       IN  /\ Return(t.continuation, t.start, t.end, r.value)
           /\ isLoadingRoute' = FALSE
           /\ IF r.value = Null
              THEN /\ routeError' = r.error
                   /\ timeouts' = Tail(timeouts)
                   /\ UNCHANGED << routeData, isCalculating >>
              ELSE /\ routeData' = r.value
                   /\ UNCHANGED routeError
                   /\ IF t.continuation.kind = "calculateRange"
                      THEN /\ isCalculating' = TRUE
                           /\ timeouts' = Append(Tail(timeouts),
                                  CalcTimeout(r.value[1], t.continuation.vehicle))
                      ELSE /\ timeouts' = Tail(timeouts)
                           /\ UNCHANGED isCalculating
    /\ UNCHANGED << locations, vehicle, result >>

(* ---------------------------- calculateRange --------------------------- *)

(* Variant: the button stays enabled while a route is loading.             *)
getRouteDisabled_NotWhileLoading ==
    IsFalsy(startLocation) \/ IsFalsy(destination)

(* disabled={isLoadingRoute || !startLocation || !destination}             *)
getRouteDisabled ==
    isLoadingRoute \/ IsFalsy(startLocation) \/ IsFalsy(destination)

(* disabled={isCalculating || !routeData}                                  *)
calculateRangeDisabled == isCalculating \/ routeData = Null

(* onClick of the Get Route button.                                        *)
ClickGetRoute ==
    /\ ~getRouteDisabled
    /\ fetchRouteData(startLocation, destination, ByButton)
    /\ UNCHANGED << locations, vehicle, routeData, result, isCalculating >>

(* onSubmit of the form, through the Calculate Range button.               *)
calculateRange ==
    /\ ~calculateRangeDisabled
    /\ IF routeData = Null
       THEN /\ fetchRouteData(startLocation, destination, ByCalculateRange(vehicle))
            /\ UNCHANGED isCalculating
       ELSE /\ Len(timeouts) < MaxInFlight
            /\ isCalculating' = TRUE
            /\ timeouts' = Append(timeouts, CalcTimeout(routeData[1], vehicle))
            /\ UNCHANGED << isLoadingRoute, routeError, call >>
    /\ UNCHANGED << locations, vehicle, routeData, result >>

(* The setTimeout callback of calculateRange runs.                         *)
CalcTimerFires ==
    /\ timeouts # << >>
    /\ Head(timeouts).kind = "calc"
    /\ LET t == Head(timeouts)
       IN  result' = Some(estimate(t.currentRouteData, t.batteryCapacity,
                                   t.currentCharge, t.vehicleEfficiency))
    /\ isCalculating' = FALSE
    /\ timeouts' = Tail(timeouts)
    /\ UNCHANGED << locations, vehicle, routeData, isLoadingRoute, routeError, call >>

(* ------------------------------ the inputs ----------------------------- *)

(* useEffect(…, [startLocation, destination]) after a location changed.    *)
resetOnLocationChange ==
    /\ routeData' = Null
    /\ result' = Null
    /\ routeError' = Null

setStartLocation ==
    \E v \in TypedLocations :
        /\ v # startLocation
        /\ startLocation' = v
        /\ resetOnLocationChange
        /\ UNCHANGED << destination, vehicle, isCalculating, isLoadingRoute,
                        timeouts, call >>

setDestination ==
    \E v \in TypedLocations :
        /\ v # destination
        /\ destination' = v
        /\ resetOnLocationChange
        /\ UNCHANGED << startLocation, vehicle, isCalculating, isLoadingRoute,
                        timeouts, call >>

setVehicleEfficiency ==
    \E v \in EfficiencyValues :
        /\ v # vehicleEfficiency
        /\ vehicleEfficiency' = v
        /\ UNCHANGED << locations, batteryCapacity, currentCharge, routeData,
                        result, isCalculating, isLoadingRoute, routeError,
                        timeouts, call >>

setBatteryCapacity ==
    \E v \in CapacityValues :
        /\ v # batteryCapacity
        /\ batteryCapacity' = v
        /\ UNCHANGED << locations, vehicleEfficiency, currentCharge, routeData,
                        result, isCalculating, isLoadingRoute, routeError,
                        timeouts, call >>

setCurrentCharge ==
    \E v \in ChargeValues :
        /\ v # currentCharge
        /\ currentCharge' = v
        /\ UNCHANGED << locations, vehicleEfficiency, batteryCapacity, routeData,
                        result, isCalculating, isLoadingRoute, routeError,
                        timeouts, call >>

(* The widget as its user drives it, with the vehicle fields left at their *)
(* initial values.                                                         *)
Next ==
    \/ setStartLocation
    \/ setDestination
    \/ ClickGetRoute
    \/ calculateRange
    \/ FetchResolves
    \/ CalcTimerFires

Spec == Init /\ [][Next]_vars

(* ------------------- fetchRouteData called directly -------------------- *)

(* A caller that awaits one resolution at a time calls                     *)
(* fetchRouteData(start, end) with arbitrary argument strings.             *)
Invoke ==
    \E p \in ArgPairs :
        /\ MissingInput(p[1], p[2]) \/ timeouts = << >>
        /\ fetchRouteData(p[1], p[2], ByCaller)
        /\ UNCHANGED << locations, vehicle, routeData, result, isCalculating >>

NextResolver ==
    \/ Invoke
    \/ FetchResolves

SpecResolver == Init /\ [][NextResolver]_vars

(* ------------------ the estimation on arbitrary routes ----------------- *)

(* The route of the worked example: 215 miles, terrain 1, traffic 1.225.   *)
ExampleRoute == newRouteData(215, Num(1), Frac(1225, 1000))

EstimatedPairs ==
    { <<in_New_York, in_Boston>>, <<s_los_angeles, s_san_francisco>>,
      <<in_Zzyzx, in_Boston_padded>>, <<s_phoenix, s_phoenix>> }

EstimatedRoutes ==
    { resolveAfterDelay(p[1], p[2]).value[1] : p \in EstimatedPairs }
        \cup { ExampleRoute }

(* calculateRange with a RouteData already held, for every vehicle the     *)
(* three number inputs can be set to.                                      *)
InitCalc ==
    /\ startLocation = EmptyString
    /\ destination = EmptyString
    /\ batteryCapacity = Num(75)
    /\ currentCharge = Num(100)
    /\ vehicleEfficiency = Frac(45, 10)
    /\ routeData \in { Some(r) : r \in EstimatedRoutes }
    /\ result = Null
    /\ isCalculating = FALSE
    /\ isLoadingRoute = FALSE
    /\ routeError = Null
    /\ timeouts = << >>
    /\ call = Null

NextCalc ==
    \/ setVehicleEfficiency
    \/ setBatteryCapacity
    \/ setCurrentCharge
    \/ calculateRange
    \/ CalcTimerFires

SpecCalc == InitCalc /\ [][NextCalc]_vars

(* ------------------------------ properties ----------------------------- *)

(* The direct caller's latest call has returned.                           *)
Returned == call # Null /\ call[1].done

Matches(s) ==
    \E loc \in Range(knownLocationKeys) :
        includes(normalize(s), loc) \/ includes(loc, normalize(s))

(* x, shown with one decimal as toFixed(1) shows it, reads tenths / 10.    *)
ShowsAs(x, tenths) ==
    /\ ~Less(x, Frac(2 * tenths - 1, 20))
    /\ Less(x, Frac(2 * tenths + 1, 20))

(* k is the least integer that is at least x.                              *)
IsCeilOf(k, x) == Less(Num(k - 1), x) /\ ~Less(Num(k), x)

(* C1: for every city pair with an entry in knownDistances, resolving the  *)
(* route with the two city names as start and end, in either order,        *)
(* returns a RouteData whose distance is the tabulated one.                *)
C1_KnownPairsGetTabulatedDistance ==
    \A p \in KnownRoutePairs :
        ( /\ Returned
          /\ \/ call[1].start = p[1] /\ call[1].end = p[2]
             \/ call[1].start = p[2] /\ call[1].end = p[1] )
        => /\ call[1].value # Null
           /\ call[1].value[1].distance = DistanceOf(p[1] \o Hyphen \o p[2])

(* A call with "New York" and "Boston" has returned.                       *)
NewYorkToBostonReturned ==
    /\ Returned
    /\ call[1].start = in_New_York
    /\ call[1].end = in_Boston

(* C2, as claimed: resolving "New York" to "Boston" yields distance 215,   *)
(* terrainFactor 1.0, trafficFactor 1.225, terrain "Flat" and traffic      *)
(* "Moderate".                                                             *)
C2_NewYorkBostonAsClaimed ==
    NewYorkToBostonReturned =>
        /\ call[1].value # Null
        /\ call[1].value[1].distance = 215
        /\ call[1].value[1].terrainFactor = Num(1)
        /\ call[1].value[1].trafficCondition = Frac(1225, 1000)
        /\ call[1].value[1].terrainType = "Flat"
        /\ call[1].value[1].trafficLevel = "Moderate"

(* C2, amended: resolving "New York" to "Boston" yields distance 215,      *)
(* terrainFactor 1.1, trafficFactor 1.225, terrain "Flat" and traffic      *)
(* "Heavy".                                                                *)
C2_NewYorkBoston ==
    NewYorkToBostonReturned =>
        /\ call[1].value # Null
        /\ call[1].value[1].distance = 215
        /\ call[1].value[1].terrainFactor = Frac(11, 10)
        /\ call[1].value[1].trafficCondition = Frac(1225, 1000)
        /\ call[1].value[1].terrainType = "Flat"
        /\ call[1].value[1].trafficLevel = "Heavy"

C2_Witness ==
    /\ NewYorkToBostonReturned
    /\ routeData = call[1].value
    /\ routeData # Null

(* C3: with both arguments non-empty, the call returns null exactly when   *)
(* neither argument matches a known location, and then the route error is  *)
(* the "Location not recognized" message; when exactly one argument        *)
(* matches, it returns a RouteData whose factors are the mean of the       *)
(* matched profile's value and 1.                                          *)
C3_FailsIffNeitherMatches ==
    ( Returned /\ call[1].start # EmptyString /\ call[1].end # EmptyString ) =>
        LET s == call[1].start
            e == call[1].end
            v == call[1].value
        IN  /\ (v = Null) <=> (~Matches(s) /\ ~Matches(e))
            /\ (v = Null) => routeError = Some(NotRecognizedMsg)
            /\ (Matches(s) /\ ~Matches(e)) =>
                  /\ Mul(Num(2), v[1].terrainFactor)
                        = Add(knownLocations[startDataOf(s)[1]].terrain, Num(1))
                  /\ Mul(Num(2), v[1].trafficCondition)
                        = Add(knownLocations[startDataOf(s)[1]].traffic, Num(1))
            /\ (~Matches(s) /\ Matches(e)) =>
                  /\ Mul(Num(2), v[1].terrainFactor)
                        = Add(Num(1), knownLocations[endDataOf(e)[1]].terrain)
                  /\ Mul(Num(2), v[1].trafficCondition)
                        = Add(Num(1), knownLocations[endDataOf(e)[1]].traffic)

C3_Witness ==
    /\ Returned
    /\ call[1].start = in_Zzyzx
    /\ Matches(call[1].end)
    /\ call[1].value # Null
    /\ call[1].value[1].terrainFactor = Frac(11, 10)

(* C4: a call with an empty start or an empty end returns null at once,    *)
(* sets the "Please enter both ..." error, and leaves routeData and        *)
(* isLoadingRoute as they were, starting no resolution.                    *)
C4_MissingInput ==
    [][ \A s \in ArgStrings :
          \A p \in { <<EmptyString, s>>, <<s, EmptyString>> } :
              fetchRouteData(p[1], p[2], ByCaller)
              => /\ call' = Some([start |-> p[1], end |-> p[2], done |-> TRUE,
                                  value |-> Null])
                 /\ routeError' = Some(MissingInputMsg)
                 /\ routeData' = routeData
                 /\ isLoadingRoute' = isLoadingRoute
                 /\ timeouts' = timeouts ]_vars

C4_Witness ==
    /\ Returned
    /\ call[1].start = in_Boston
    /\ call[1].end = EmptyString
    /\ call[1].value = Null
    /\ routeError = Some(MissingInputMsg)
    /\ isLoadingRoute
    /\ routeData # Null

(* C5: when an estimation completes, with raw = currentCharge -            *)
(* batteryConsumption: if raw < 10 then arrivalCharge is exactly 10 and    *)
(* chargingStops is ceil((10 - raw) / 70), at least 1; if raw >= 10 then   *)
(* arrivalCharge is raw and chargingStops is 0.  Always arrivalCharge >=   *)
(* 10 and chargingStops is a natural number.                               *)
C5_ClampAndStops ==
    [][ CalcTimerFires =>
          LET r   == result'[1]
              raw == Sub(Head(timeouts).currentCharge, r.batteryConsumption)
          IN  /\ Less(raw, Num(10)) =>
                    /\ r.arrivalCharge = Num(10)
                    /\ IsCeilOf(r.chargingStops, Div(Sub(Num(10), raw), Num(70)))
                    /\ r.chargingStops >= 1
              /\ ~Less(raw, Num(10)) =>
                    /\ r.arrivalCharge = raw
                    /\ r.chargingStops = 0
              /\ ~Less(r.arrivalCharge, Num(10))
              /\ r.chargingStops \in Nat ]_vars

C5_Witness ==
    /\ result # Null
    /\ result[1].arrivalCharge = Num(10)
    /\ result[1].chargingStops >= 2
    /\ Less(Num(100), result[1].batteryConsumption)

(* C6: when an estimation completes, estimatedRange = batteryCapacity *    *)
(* (currentCharge / 100) * efficiency / (terrainFactor * trafficFactor)    *)
(* and batteryConsumption = distance * terrainFactor * trafficFactor /     *)
(* (efficiency * batteryCapacity) * 100; for the route 215 miles, terrain  *)
(* 1, traffic 1.225 with 75 kWh, 100 % and 4.5 miles/kWh the result shows  *)
(* range 275.5, consumption 78.0, arrival charge 22.0 and 0 stops.         *)
C6_Formulas ==
    [][ CalcTimerFires =>
          LET t == Head(timeouts)
              r == result'[1]
              f == Mul(t.currentRouteData.terrainFactor,
                       t.currentRouteData.trafficCondition)
          IN  /\ Mul(r.estimatedRange, Mul(f, Num(100)))
                    = Mul(Mul(t.batteryCapacity, t.currentCharge), t.vehicleEfficiency)
              /\ Mul(r.batteryConsumption, Mul(t.vehicleEfficiency, t.batteryCapacity))
                    = Mul(Mul(Num(t.currentRouteData.distance), f), Num(100))
              /\ ( /\ t.currentRouteData = ExampleRoute
                   /\ t.batteryCapacity = Num(75)
                   /\ t.currentCharge = Num(100)
                   /\ t.vehicleEfficiency = Frac(45, 10) )
                 => /\ ShowsAs(r.estimatedRange, 2755)
                    /\ ShowsAs(r.batteryConsumption, 780)
                    /\ ShowsAs(r.arrivalCharge, 220)
                    /\ r.chargingStops = 0 ]_vars

C6_Witness ==
    /\ result # Null
    /\ routeData = Some(ExampleRoute)
    /\ ShowsAs(result[1].estimatedRange, 2755)
    /\ ShowsAs(result[1].batteryConsumption, 780)

(* C7: whenever a routeData is held, it is the RouteData that resolving    *)
(* the current startLocation and destination yields.                       *)
C7_RouteDataIsOfCurrentInputs ==
    routeData # Null =>
        /\ ~MissingInput(startLocation, destination)
        /\ routeData = resolveAfterDelay(startLocation, destination).value

(* C8: at most one route resolution and at most one range estimation are   *)
(* in flight at any time.                                                  *)
C8_AtMostOneInFlight ==
    /\ Len(PendingFetches) <= 1
    /\ Len(PendingEstimations) <= 1
    /\ Len(PendingFetches) = 1 => isLoadingRoute
    /\ Len(PendingEstimations) = 1 => isCalculating

C8_Witness ==
    /\ Len(PendingFetches) = 1
    /\ Len(PendingEstimations) = 1
    /\ Head(timeouts).kind = "calc"
    /\ Head(timeouts).currentRouteData.distance = 215
    /\ startLocation = in_Zzyzx

(* C9: every RouteData returned has terrainFactor the mean of the two      *)
(* sides' terrain values and trafficFactor the mean of their traffic       *)
(* values, a side that matched no profile counting 1; so terrainFactor is  *)
(* in [1, 1.5] and trafficFactor in [1, 1.3].                              *)
C9_FactorsAreMeans ==
    ( Returned /\ call[1].value # Null ) =>
        LET v == call[1].value[1]
            P(s) == IF Matches(s)
                    THEN knownLocations[findLocation(normalize(s))[1]]
                    ELSE [terrain |-> Num(1), traffic |-> Num(1)]
            a == P(call[1].start)
            b == P(call[1].end)
        IN  /\ Mul(Num(2), v.terrainFactor) = Add(a.terrain, b.terrain)
            /\ Mul(Num(2), v.trafficCondition) = Add(a.traffic, b.traffic)
            /\ ~Less(v.terrainFactor, Num(1))
            /\ ~Less(Frac(15, 10), v.terrainFactor)
            /\ ~Less(v.trafficCondition, Num(1))
            /\ ~Less(Frac(13, 10), v.trafficCondition)

C9_Witness ==
    /\ Returned
    /\ call[1].start = s_denver
    /\ call[1].end = s_salt_lake_city
    /\ call[1].value # Null
    /\ call[1].value[1].terrainFactor = Frac(15, 10)
    /\ call[1].value[1].trafficCondition = Num(1)

(* C10: a returned RouteData has distance 150 + 10 * (len(startKey) +      *)
(* len(endKey)) when both sides matched and neither ordering of the keys   *)
(* is in knownDistances, and 100 + 5 * (len(start) + len(end)), on the raw *)
(* argument strings, when fewer than two sides matched.                    *)
C10_SynthesizedDistance ==
    ( Returned /\ call[1].value # Null ) =>
        LET s == call[1].start
            e == call[1].end
            d == call[1].value[1].distance
            sk == findLocation(normalize(s))
            ek == findLocation(normalize(e))
        IN  /\ ( /\ Matches(s) /\ Matches(e)
                 /\ ~HasDistance(sk[1] \o Hyphen \o ek[1])
                 /\ ~HasDistance(ek[1] \o Hyphen \o sk[1]) )
               => d = 150 + 10 * (Len(sk[1]) + Len(ek[1]))
            /\ ~(Matches(s) /\ Matches(e))
               => d = 100 + 5 * (Len(s) + Len(e))

C10_Witness ==
    /\ Returned
    /\ call[1].start = in_Boston_padded
    /\ call[1].end = in_Qqcity
    /\ call[1].value # Null
    /\ call[1].value[1].distance = 170

(* C11: whenever both a result and a routeData are held, so that the       *)
(* results panel is shown, the result is the estimation of that routeData  *)
(* for the vehicle values.                                                 *)
C11_ResultIsOfHeldRoute ==
    ( result # Null /\ routeData # Null ) =>
        result[1] = estimate(routeData[1], batteryCapacity, currentCharge,
                             vehicleEfficiency)

(* C12: an argument that is empty after normalization never counts as      *)
(* matching a known location: a call with such a start or end, whose other *)
(* argument matches no known location, returns no RouteData.               *)
C12_BlankNeverMatches ==
    LET IsBlank(s) == normalize(s) = EmptyString
    IN  ( /\ Returned
          /\ \/ IsBlank(call[1].start) /\ ~Matches(call[1].end)
             \/ IsBlank(call[1].end) /\ ~Matches(call[1].start) )
        => call[1].value = Null

(* C13: every RouteData returned has an estimatedTime whose hours are      *)
(* floor(distance * trafficFactor / 65) and whose minutes are an integer   *)
(* in 0..59; it never reads 60 minutes.                                    *)
C13_MinutesBelowSixty ==
    ( Returned /\ call[1].value # Null ) =>
        LET v == call[1].value[1]
        IN  /\ v.estimatedTime.hours
                  = Floor(Div(Mul(Num(v.distance), v.trafficCondition), Num(65)))
            /\ v.estimatedTime.minutes \in 0..59

====
